---- MODULE Spec2Model ----
(***************************************************************************)
(* Model of image_quant: the significance-bracket layout of                *)
(* plotting._add_significance_bars and the pairwise comparison pipeline of *)
(* stats.run_mixed_lme.                                                    *)
(*                                                                         *)
(* Numbers.  p-values and alpha are integers in units of 1e-5 (0.05 is     *)
(* 5000, 1.0 is 100000).  Heights and y-coordinates are integers in units  *)
(* of 1/100 of the smallest axis range, so that the code's fractions of    *)
(* the axis range (5%, 2%, 1%) are exact.  A p-value is a record with a    *)
(* kind: a number, NaN, or None (the column is missing from the row).      *)
(***************************************************************************)
EXTENDS Integers, Sequences, FiniteSets

VARIABLES
    \* ---- _add_significance_bars ----
    lpc,        \* position in the function: "loop", "done"; "idle": not called
    alpha,      \* keyword argument alpha
    bars,       \* bars[g]: top of bar g, error bar included
    ylim,       \* <<bottom, top>> of the axis
    y_range,    \* local y_range, read once before the loop
    n,          \* number of rows of stats_df consumed by the loop so far
    p,          \* local p: the effective p-value of the row consumed last
    g1,         \* local g1, assigned once p has passed the filter
    g2,         \* local g2
    used,       \* local list used: <<x1, x2, level>>
    plotted,    \* the ax.plot calls made: [x1, x2, y]
    text,       \* label of the last ax.text call
    max_y,      \* local max_y
    \* ---- run_mixed_lme ----
    spc,        \* position in the function: "start", "fit", "pairs", "test",
                \* "done" (returned), "raised" (left by an exception)
    dep_var,    \* argument dep_var
    df_groups,  \* the distinct values of df['group']
    comparisons,\* argument comparisons: [given |-> FALSE] is None
    fits,       \* number of model.fit() calls made
    params,     \* result.params: the fitted fixed-effect coefficients
    pairs,      \* local pairs
    rows,       \* local rows, as the loop has built it
    results_df, \* the returned table
    corrections,\* number of multipletests calls made
    error       \* the exception that ended the call, "" if none

lvars == <<lpc, alpha, bars, ylim, y_range, n, p, g1, g2, used, plotted, text, max_y>>

svars == <<spc, dep_var, df_groups, comparisons, fits, params, pairs, rows,
           results_df, corrections, error>>

vars == <<lvars, svars>>

(***************************************************************************)
(* Bounds and input domains                                                *)
(***************************************************************************)
MaxRows == 3          \* rows of the table given to _add_significance_bars
MaxGroups == 3        \* distinct group labels of a dataset

Num(v) == [kind |-> "num", val |-> v]
NaN == [kind |-> "nan", val |-> 0]
None == [kind |-> "none", val |-> 0]

\* numeric p-values a table may hold, around every threshold of the code
PNumbers == {9, 4990, 5000, 7000}
Alphas == {5000, 7000}
Heights == {91, 97}
YLims == {<<0, 100>>}

\* groups = [t.get_text() for t in ax.get_xticklabels()]
xticklabels == <<1, 2, 3>>
TickLabels == {xticklabels[i] : i \in 1..Len(xticklabels)}

\* group labels a row may name: the tick labels and UnknownLabel, a label
\* that is on no tick (it is paired with itself and with the first tick label)
UnknownLabel == MaxGroups + 1
RowPairs ==
    (TickLabels \X TickLabels)
    \cup {<<UnknownLabel, xticklabels[1]>>, <<xticklabels[1], UnknownLabel>>,
          <<UnknownLabel, UnknownLabel>>}

\* (p_value_adj, p_value) of a row: adjusted present (raw then ignored), or
\* the adjusted column missing
PCells ==
    {<<a, Num(9)>> : a \in {Num(v) : v \in PNumbers} \cup {NaN}}
    \cup {<<None, r>> : r \in {Num(4990), None}}

Rows ==
    {[group1 |-> gp[1], group2 |-> gp[2], p_value_adj |-> c[1], p_value |-> c[2]] :
        gp \in RowPairs, c \in PCells}

(***************************************************************************)
(* plotting.py                                                             *)
(***************************************************************************)
Max(a, b) == IF a >= b THEN a ELSE b

\* _star_string(p), p a number
_star_string(q) ==
    IF q < 10 THEN "****"
    ELSE IF q < 100 THEN "***"
    ELSE IF q < 1000 THEN "**"
    ELSE IF q < 5000 THEN "*"
    ELSE "ns"

\* pos = {g: i for i, g in enumerate(groups)}
InPos(g) == \E i \in 1..Len(xticklabels) : xticklabels[i] = g
pos(g) == (CHOOSE i \in 1..Len(xticklabels) : xticklabels[i] = g) - 1

\* spacing, fractions of the axis range
line_height(R) == (5 * R) \div 100
offset(R) == (2 * R) \div 100
text_offset(R) == (1 * R) \div 100
\* line_height * 0.2
connector(R) == line_height(R) \div 5

\* row.get("p_value_adj", row.get("p_value"))
EffectiveP(r) == IF r.p_value_adj.kind # "none" THEN r.p_value_adj ELSE r.p_value

\* pd.notna(p)
notna(q) == q.kind = "num"

\* a plausible slip: p > alpha
NotSignificantInclusive(q, a) == ~notna(q) \/ q.val > a

\* not pd.notna(p) or p >= alpha
NotSignificant(q, a) == ~notna(q) \/ q.val >= a

\* a plausible slip: spans that only share an endpoint do not count
OverlapsStrict(x1, x2, a1, a2) == ~(x2 <= a1 \/ x1 >= a2)

\* not (x2 < a1 or x1 > a2)
Overlaps(x1, x2, a1, a2) == ~(x2 < a1 \/ x1 > a2)

\* the scan of used: level = 0; for a1, a2, lvl in used: ... max(level, lvl + 1)
RECURSIVE ScanLevel(_, _, _, _, _)
ScanLevel(u, k, x1, x2, level) ==
    IF k > Len(u) THEN level
    ELSE ScanLevel(u, k + 1, x1, x2,
             IF Overlaps(x1, x2, u[k][1], u[k][2])
             THEN Max(level, u[k][3] + 1) ELSE level)

\* a plausible slip: level += 1 for every overlapping bracket
FindLevelCount(u, x1, x2) ==
    Cardinality({k \in 1..Len(u) : Overlaps(x1, x2, u[k][1], u[k][2])})

\* a plausible alternative: the lowest level no overlapping bracket occupies
FindLevelFirstFree(u, x1, x2) ==
    LET taken == {u[k][3] : k \in {k \in 1..Len(u) :
                                     Overlaps(x1, x2, u[k][1], u[k][2])}}
    IN CHOOSE v \in 0..Len(u) : v \notin taken /\ \A w \in 0..(v - 1) : w \in taken

\* lines 101-105
FindLevel(u, x1, x2) == ScanLevel(u, 1, x1, x2, 0)

\* lines 86-106 as a function: used after the loop has placed, in this order,
\* one bracket for each span <<x1, x2>> of s
RECURSIVE Layout(_)
Layout(s) ==
    IF s = <<>> THEN <<>>
    ELSE LET u == Layout(SubSeq(s, 1, Len(s) - 1))
             b == s[Len(s)]
         IN Append(u, <<b[1], b[2], FindLevel(u, b[1], b[2])>>)

\* y = max(bars[g1], bars[g2]) + offset + level * (line_height + text_offset)
BracketY(b, ga, gb, level, R) ==
    Max(b[ga], b[gb]) + offset(R) + level * (line_height(R) + text_offset(R))

\* y + line_height * 0.2 + text_offset
TextY(y, R) == y + connector(R) + text_offset(R)

\* x1, x2 = sorted([pos[g1], pos[g2]])
SortedPair(a, b) == IF a <= b THEN <<a, b>> ELSE <<b, a>>

\* a plausible slip: the offset is forgotten
NewYlimNoOffset(yl, my, R) == IF my > yl[2] THEN <<yl[1], my>> ELSE yl

\* lines 124-125: ax.set_ylim(top=max_y + offset) if max_y > ax.get_ylim()[1]
NewYlim(yl, my, R) == IF my > yl[2] THEN <<yl[1], my + offset(R)>> ELSE yl

LayoutStart ==
    /\ lpc = "loop"
    /\ alpha \in Alphas
    /\ bars \in [TickLabels -> Heights]
    /\ ylim \in YLims
    /\ y_range = ylim[2] - ylim[1]
    /\ n = 0
    /\ p = None
    /\ g1 = UnknownLabel
    /\ g2 = UnknownLabel
    /\ used = <<>>
    /\ plotted = <<>>
    /\ text = ""
    /\ max_y = 0

\* _add_significance_bars is not running
LayoutIdle ==
    /\ lpc = "idle"
    /\ alpha = 5000
    /\ bars = [g \in TickLabels |-> 0]
    /\ ylim = <<0, 100>>
    /\ y_range = 100
    /\ n = 0
    /\ p = None
    /\ g1 = UnknownLabel
    /\ g2 = UnknownLabel
    /\ used = <<>>
    /\ plotted = <<>>
    /\ text = ""
    /\ max_y = 0

\* lines 91-93: continue
SkipNotSignificant ==
    /\ lpc = "loop"
    /\ n < MaxRows
    /\ \E r \in Rows :
        /\ NotSignificant(EffectiveP(r), alpha)
        /\ p' = EffectiveP(r)
    /\ n' = n + 1
    /\ UNCHANGED <<lpc, alpha, bars, ylim, y_range, g1, g2, used, plotted, text, max_y>>
    /\ UNCHANGED svars

\* lines 95-97: continue
SkipUnknownGroup ==
    /\ lpc = "loop"
    /\ n < MaxRows
    /\ \E r \in Rows :
        /\ ~NotSignificant(EffectiveP(r), alpha)
        /\ ~InPos(r.group1) \/ ~InPos(r.group2)
        /\ p' = EffectiveP(r)
        /\ g1' = r.group1
        /\ g2' = r.group2
    /\ n' = n + 1
    /\ UNCHANGED <<lpc, alpha, bars, ylim, y_range, used, plotted, text, max_y>>
    /\ UNCHANGED svars

\* lines 98-121: one bracket
PlaceBracket ==
    /\ lpc = "loop"
    /\ n < MaxRows
    /\ \E r \in Rows :
        /\ ~NotSignificant(EffectiveP(r), alpha)
        /\ InPos(r.group1) /\ InPos(r.group2)
        /\ LET x1 == SortedPair(pos(r.group1), pos(r.group2))[1]
               x2 == SortedPair(pos(r.group1), pos(r.group2))[2]
               level == FindLevel(used, x1, x2)
               y == BracketY(bars, r.group1, r.group2, level, y_range)
           IN /\ p' = EffectiveP(r)
              /\ g1' = r.group1
              /\ g2' = r.group2
              /\ used' = Append(used, <<x1, x2, level>>)
              /\ plotted' = Append(plotted, [x1 |-> x1, x2 |-> x2, y |-> y])
              /\ text' = _star_string(EffectiveP(r).val)
              /\ max_y' = Max(max_y, TextY(y, y_range))
    /\ n' = n + 1
    /\ UNCHANGED <<lpc, alpha, bars, ylim, y_range>>
    /\ UNCHANGED svars

\* lines 123-125: the table is exhausted
ExtendAxis ==
    /\ lpc = "loop"
    /\ ylim' = NewYlim(ylim, max_y, y_range)
    /\ lpc' = "done"
    /\ UNCHANGED <<alpha, bars, y_range, n, p, g1, g2, used, plotted, text, max_y>>
    /\ UNCHANGED svars

(***************************************************************************)
(* stats.py                                                                *)
(***************************************************************************)
\* allowed = {'intIn', 'intTot', 'fracIn'}
allowed == {"intIn", "intTot", "fracIn"}
DepVars == {"fracIn", "area"}

\* the argument comparisons: None, or a list of at most two pairs over the
\* dataset's labels and UnknownLabel, a label the dataset does not hold
ComparisonArgs(G) ==
    {[given |-> FALSE, list |-> <<>>]}
    \cup {[given |-> TRUE, list |-> l] :
            l \in UNION {[1..m -> (G \cup {UnknownLabel}) \X (G \cup {UnknownLabel})] :
                            m \in 0..2}}

\* raw p-values a contrast test may return
PRaw == {2000, 2500, 50000}

\* coefficient vectors a fit over k coefficients may return
ParamChoices(k) == {[j \in 1..k |-> 2 * j + 1], [j \in 1..k |-> 7 - 3 * j]}

\* sorted(df['group'].unique())
RECURSIVE sorted(_)
sorted(S) ==
    IF S = {} THEN <<>>
    ELSE LET m == CHOOSE x \in S : \A z \in S : x <= z
         IN <<m>> \o sorted(S \ {m})

\* result.model.exog_names: "Intercept" (0 here), then "C(group)[T.g]" (g
\* here) for every group but the first, in the order of the groups
exog_names(groups) == <<0>> \o Tail(groups)

\* idx_map[f"C(group)[T.{g}]"]
idx_map(groups, g) ==
    CHOOSE i \in 1..Len(exog_names(groups)) : exog_names(groups)[i] = g

InGroups(groups, g) == \E i \in 1..Len(groups) : groups[i] = g

\* list(combinations(groups, 2))
RECURSIVE combinations2(_, _, _)
combinations2(groups, i, j) ==
    IF i >= Len(groups) THEN <<>>
    ELSE IF j > Len(groups) THEN combinations2(groups, i + 1, i + 2)
    ELSE <<<<groups[i], groups[j]>>>> \o combinations2(groups, i, j + 1)

\* a plausible slip: every pair, a group with itself included
AllPairsWithSelf(groups) ==
    combinations2(groups, 1, 2)
    \o [i \in 1..Len(groups) |-> <<groups[i], groups[i]>>]

\* line 78
AllPairs(groups) == combinations2(groups, 1, 2)

\* lines 84-88: the contrast vector of (a, b)
Contrast(groups, a, b) ==
    LET baseline == groups[1]
        cont0 == [i \in 1..Len(exog_names(groups)) |-> 0]
        cont1 == IF a # baseline
                 THEN [cont0 EXCEPT ![idx_map(groups, a)] = 1] ELSE cont0
    IN IF b # baseline
       THEN [cont1 EXCEPT ![idx_map(groups, b)] = -1] ELSE cont1

RECURSIVE Dot(_, _)
Dot(c, beta) == IF Len(c) = 0 THEN 0 ELSE c[1] * beta[1] + Dot(Tail(c), Tail(beta))

\* the p-values result.t_test(contrast) may return: a zero contrast has a
\* zero standard error, so t = 0/0 and the p-value is NaN
TestPValues(cont) ==
    IF \A i \in 1..Len(cont) : cont[i] = 0 THEN {NaN} ELSE {Num(v) : v \in PRaw}

\* multipletests(pvals, method='holm'): np.argsort, NaN last, ties by index
SortKey(q) == IF q.kind = "num" THEN q.val ELSE 100001
Before(ps, i, j) ==
    \/ SortKey(ps[i]) < SortKey(ps[j])
    \/ SortKey(ps[i]) = SortKey(ps[j]) /\ i < j
sortind(ps) ==
    [r \in 1..Len(ps) |->
        CHOOSE i \in 1..Len(ps) :
            Cardinality({j \in 1..Len(ps) : Before(ps, j, i)}) = r - 1]

\* pvals * np.arange(ntests, 0, -1), on the sorted p-values
HolmRaw(sp) ==
    [r \in 1..Len(sp) |->
        IF sp[r].kind = "num" THEN Num(sp[r].val * (Len(sp) - r + 1)) ELSE NaN]

\* np.maximum.accumulate: a NaN stays
RECURSIVE Accumulate(_, _)
Accumulate(a, r) ==
    IF r = 0 THEN <<>>
    ELSE LET prev == Accumulate(a, r - 1)
         IN Append(prev,
                IF r = 1 THEN a[1]
                ELSE IF prev[r - 1].kind # "num" \/ a[r].kind # "num" THEN NaN
                ELSE Num(Max(prev[r - 1].val, a[r].val)))

\* pvals_corrected[pvals_corrected > 1] = 1
Clip(q) == IF q.kind = "num" /\ q.val > 100000 THEN Num(100000) ELSE q

\* a plausible slip: the adjusted values are left in sorted order
HolmSortedOrder(ps) ==
    LET si == sortind(ps)
        sp == [r \in 1..Len(ps) |-> ps[si[r]]]
        acc == Accumulate(HolmRaw(sp), Len(sp))
    IN [i \in 1..Len(ps) |-> Clip(acc[i])]

\* pvals_corrected_[sortind] = pvals_corrected
Holm(ps) ==
    LET si == sortind(ps)
        sp == [r \in 1..Len(ps) |-> ps[si[r]]]
        acc == Accumulate(HolmRaw(sp), Len(sp))
    IN [i \in 1..Len(ps) |->
           Clip(acc[CHOOSE r \in 1..Len(ps) : si[r] = i])]

\* a plausible slip: the correction runs on an empty table too
ShouldCorrectAlways(rs) == TRUE

\* line 115: not results_df.empty
ShouldCorrect(rs) == Len(rs) > 0

\* a plausible slip: the raw p-values land in the column p_value_adj
WithAdjustedRaw(rs) ==
    [i \in 1..Len(rs) |->
        [group1 |-> rs[i].group1, group2 |-> rs[i].group2,
         contrast |-> rs[i].contrast, estimate |-> rs[i].estimate,
         p_value |-> rs[i].p_value, p_value_adj |-> rs[i].p_value]]

\* lines 115-117: the table with the column p_value_adj, if it has a row
WithAdjusted(rs) ==
    IF ShouldCorrect(rs)
    THEN LET adj == Holm([i \in 1..Len(rs) |-> rs[i].p_value])
         IN [i \in 1..Len(rs) |->
                [group1 |-> rs[i].group1, group2 |-> rs[i].group2,
                 contrast |-> rs[i].contrast, estimate |-> rs[i].estimate,
                 p_value |-> rs[i].p_value, p_value_adj |-> adj[i]]]
    ELSE rs

StatsStart ==
    /\ spc = "start"
    /\ dep_var \in DepVars
    /\ df_groups \in {1..k : k \in 1..MaxGroups}
    /\ comparisons \in ComparisonArgs(df_groups)
    /\ fits = 0
    /\ params = <<>>
    /\ pairs = <<>>
    /\ rows = <<>>
    /\ results_df = <<>>
    /\ corrections = 0
    /\ error = ""

\* run_mixed_lme is not running
StatsIdle ==
    /\ spc = "idle"
    /\ dep_var = "fracIn"
    /\ df_groups = {}
    /\ comparisons = [given |-> FALSE, list |-> <<>>]
    /\ fits = 0
    /\ params = <<>>
    /\ pairs = <<>>
    /\ rows = <<>>
    /\ results_df = <<>>
    /\ corrections = 0
    /\ error = ""

\* lines 54-56
CheckDepVar ==
    /\ spc = "start"
    /\ IF dep_var \notin allowed
       THEN spc' = "raised" /\ error' = "dep_var"
       ELSE spc' = "fit" /\ error' = error
    /\ UNCHANGED <<dep_var, df_groups, comparisons, fits, params, pairs, rows,
                   results_df, corrections>>
    /\ UNCHANGED lvars

\* lines 59-61
Fit ==
    /\ spc = "fit"
    /\ fits' = fits + 1
    /\ params' \in ParamChoices(Cardinality(df_groups))
    /\ spc' = "pairs"
    /\ UNCHANGED <<dep_var, df_groups, comparisons, pairs, rows, results_df,
                   corrections, error>>
    /\ UNCHANGED lvars

\* the pairs the validation of lines 73-75 rejects
UnknownPairs(groups, l) ==
    {i \in 1..Len(l) : ~InGroups(groups, l[i][1]) \/ ~InGroups(groups, l[i][2])}

\* lines 64-78
PreparePairs ==
    /\ spc = "pairs"
    /\ LET groups == sorted(df_groups)
       IN IF comparisons.given
          THEN /\ pairs' = comparisons.list
               /\ IF UnknownPairs(groups, comparisons.list) # {}
                  THEN spc' = "raised" /\ error' = "unknown_group"
                  ELSE spc' = "test" /\ error' = error
          ELSE /\ pairs' = AllPairs(groups)
               /\ spc' = "test"
               /\ error' = error
    /\ UNCHANGED <<dep_var, df_groups, comparisons, fits, params, rows,
                   results_df, corrections>>
    /\ UNCHANGED lvars

\* lines 82-110: one pair
TestPair ==
    /\ spc = "test"
    /\ Len(rows) < Len(pairs)
    /\ LET groups == sorted(df_groups)
           pr == pairs[Len(rows) + 1]
           cont == Contrast(groups, pr[1], pr[2])
       IN \E pv \in TestPValues(cont) :
              rows' = Append(rows,
                  [group1 |-> pr[1], group2 |-> pr[2], contrast |-> cont,
                   estimate |-> Dot(cont, params), p_value |-> pv])
    /\ UNCHANGED <<spc, dep_var, df_groups, comparisons, fits, params, pairs,
                   results_df, corrections, error>>
    /\ UNCHANGED lvars

\* lines 112-119
CorrectAndReturn ==
    /\ spc = "test"
    /\ Len(rows) = Len(pairs)
    /\ results_df' = WithAdjusted(rows)
    /\ corrections' = IF ShouldCorrect(rows) THEN corrections + 1 ELSE corrections
    /\ spc' = "done"
    /\ UNCHANGED <<dep_var, df_groups, comparisons, fits, params, pairs, rows,
                   error>>
    /\ UNCHANGED lvars

(***************************************************************************)
(* The specification: one call of either function                          *)
(***************************************************************************)
Init ==
    \/ LayoutStart /\ StatsIdle
    \/ StatsStart /\ LayoutIdle

Next ==
    \/ SkipNotSignificant
    \/ SkipUnknownGroup
    \/ PlaceBracket
    \/ ExtendAxis
    \/ CheckDepVar
    \/ Fit
    \/ PreparePairs
    \/ TestPair
    \/ CorrectAndReturn

Spec == Init /\ [][Next]_vars

(***************************************************************************)
(* Properties                                                              *)
(***************************************************************************)
\* the x-spans [a1, a2] and [b1, b2] intersect, a shared endpoint included
SpansIntersect(a1, a2, b1, b2) == \E x \in a1..a2 : x \in b1..b2

Stars == {"*", "**", "***", "****"}

\* C1: at every step of the placement loop, any two placed brackets whose
\* x-spans intersect (a shared endpoint counts) have different levels.
C1_IntersectingSpansDifferInLevel ==
    \A i \in 1..Len(used) : \A j \in 1..Len(used) :
        (i < j /\ SpansIntersect(used[i][1], used[i][2], used[j][1], used[j][2]))
            => used[i][3] # used[j][3]

\* three brackets are placed, the third meets the first two only at an
\* endpoint each
C1_Witness ==
    /\ lpc = "loop"
    /\ Len(used) = 3
    /\ used[1][2] = used[3][1]
    /\ used[3][2] = used[2][1]
    /\ used[1][2] < used[2][1]

\* C2: a call that ends in the unknown-group error has fitted no model.
C2_UnknownGroupRaisedBeforeFit ==
    error = "unknown_group" => fits = 0

\* E[response | g] under coefficients beta: the intercept, plus the
\* indicator coefficient of g unless g is the baseline
GroupMean(groups, beta, g) ==
    beta[1] + (IF g = groups[1] THEN 0 ELSE beta[idx_map(groups, g)])

\* C3: for every tested pair (g1, g2), the contrast vector c gives
\* c . beta = mean(g1) - mean(g2) for every coefficient vector beta, and the
\* estimate of the row is that difference for the fitted coefficients.
C3_ContrastIsMeanDifference ==
    \A i \in 1..Len(rows) :
        LET groups == sorted(df_groups)
            r == rows[i]
        IN /\ \A beta \in [1..Len(groups) -> {0, 1}] :
                  Dot(r.contrast, beta)
                      = GroupMean(groups, beta, r.group1) - GroupMean(groups, beta, r.group2)
           /\ r.estimate
                  = GroupMean(groups, params, r.group1) - GroupMean(groups, params, r.group2)

\* C4: without an explicit comparison list, a dataset of k groups returns
\* k(k-1)/2 rows, every row is (g1, g2) with g1 before g2 in the sorted
\* order, and every unordered pair of distinct groups is in exactly one row.
C4_AllPairsOnce ==
    (spc = "done" /\ ~comparisons.given) =>
        LET k == Cardinality(df_groups)
        IN /\ 2 * Len(results_df) = k * (k - 1)
           /\ \A i \in 1..Len(results_df) :
                  /\ results_df[i].group1 \in df_groups
                  /\ results_df[i].group2 \in df_groups
                  /\ results_df[i].group1 < results_df[i].group2
           /\ \A a \in df_groups : \A b \in df_groups :
                  a < b =>
                      Cardinality({i \in 1..Len(results_df) :
                          {results_df[i].group1, results_df[i].group2} = {a, b}}) = 1

\* three groups, no explicit list: three rows returned
C4_Witness ==
    /\ spc = "done"
    /\ ~comparisons.given
    /\ Cardinality(df_groups) = 3
    /\ Len(results_df) = 3

\* the Holm value of entry i of the raw p-values ps (numbers), from the
\* definition: min(1, max over the j with p_j <= p_i of (m - rank_j + 1) p_j),
\* the rank of p_j being one more than the number of smaller p-values
HolmValue(ps, i) ==
    LET m == Len(ps)
        scaled == {(m - Cardinality({l \in 1..m : ps[l] < ps[j]})) * ps[j] :
                      j \in {j \in 1..m : ps[j] <= ps[i]}}
        top == CHOOSE v \in scaled : \A w \in scaled : w <= v
    IN IF top > 100000 THEN 100000 ELSE top

AllNumbers(df) == \A i \in 1..Len(df) : df[i].p_value.kind = "num"

\* C5: on raw p-values that are numbers, the adjusted p-values of the
\* returned table are non-decreasing in the raw p-value, each is at least
\* its raw value and at most 1, entry i is the Holm value of comparison i,
\* and a single comparison keeps its raw p-value.
C5_HolmAdjusted ==
    (spc = "done" /\ Len(results_df) > 0 /\ AllNumbers(results_df)) =>
        LET raw == [i \in 1..Len(results_df) |-> results_df[i].p_value.val]
            adj == [i \in 1..Len(results_df) |-> results_df[i].p_value_adj]
        IN /\ \A i \in 1..Len(raw) :
                  /\ adj[i].kind = "num"
                  /\ adj[i].val >= raw[i]
                  /\ adj[i].val <= 100000
                  /\ adj[i].val = HolmValue(raw, i)
           /\ \A i \in 1..Len(raw) : \A j \in 1..Len(raw) :
                  raw[i] <= raw[j] => adj[i].val <= adj[j].val
           /\ Len(raw) = 1 => adj[1].val = raw[1]

\* three comparisons, the raw p-values not in ascending order: the largest
\* one, last in sorted order, is raised above its own value by the running
\* maximum, and the first one is cut to 1
C5_Witness ==
    /\ spc = "done"
    /\ Len(results_df) = 3
    /\ AllNumbers(results_df)
    /\ results_df[1].p_value.val > results_df[2].p_value.val
    /\ results_df[3].p_value.val >= results_df[1].p_value.val
    /\ results_df[3].p_value_adj.val > results_df[3].p_value.val
    /\ results_df[1].p_value_adj.val = 100000

\* C6: a loop iteration places a bracket if and only if the effective
\* p-value of its row is a number strictly below alpha and both groups are
\* on the axis; the bracket is appended after the brackets placed before,
\* with the sorted positions of the two groups as its span.
C6_PlacedIffSignificant ==
    [][n' = n + 1 =>
        LET significant == p'.kind = "num" /\ p'.val < alpha
            onAxis == g1' \in TickLabels /\ g2' \in TickLabels
        IN /\ (used' # used) <=> (significant /\ onAxis)
           /\ (plotted' # plotted) <=> (significant /\ onAxis)
           /\ (significant /\ onAxis) =>
                  /\ Len(used') = Len(used) + 1
                  /\ SubSeq(used', 1, Len(used)) = used
                  /\ Len(plotted') = Len(plotted) + 1
                  /\ SubSeq(plotted', 1, Len(plotted)) = plotted
                  /\ {used'[Len(used')][1], used'[Len(used')][2]}
                         = {pos(g1'), pos(g2')}
                  /\ used'[Len(used')][1] <= used'[Len(used')][2]
    ]_vars

\* a bracket is placed, then a row with both groups on the axis and p equal
\* to alpha is consumed and places none
C6_Witness ==
    /\ lpc = "loop"
    /\ n = 2
    /\ Len(used) = 1
    /\ p = Num(alpha)

\* C7: every placed bracket is labelled "*", "**", "***" or "****", never
\* "ns", whatever the threshold alpha.
C7_NoNsLabel ==
    (lpc # "idle" /\ Len(used) > 0) => text \in Stars

\* C8: an empty comparison set is not an error.  run_mixed_lme returns an
\* empty table, raises nothing and makes no correction call when it has no
\* pair to test (a call with a valid dep_var raises only on a non-empty
\* explicit list); _add_significance_bars places nothing on an empty table.
C8_EmptyIsNotAnError ==
    /\ (spc \in {"test", "done"} /\ pairs = <<>>) =>
           /\ error = ""
           /\ corrections = 0
           /\ spc = "done" => results_df = <<>>
    /\ (spc = "raised" /\ dep_var \in allowed) =>
           /\ comparisons.given
           /\ comparisons.list # <<>>
    /\ (lpc = "done" /\ n = 0) =>
           /\ used = <<>>
           /\ plotted = <<>>
           /\ text = ""

\* run_mixed_lme has returned on an explicit empty list
C8_Witness ==
    /\ spc = "done"
    /\ comparisons.given
    /\ comparisons.list = <<>>
    /\ results_df = <<>>

\* the levels of the brackets of u whose span intersects [x1, x2]
LevelsMet(u, x1, x2) ==
    {u[k][3] : k \in {k \in 1..Len(u) : SpansIntersect(x1, x2, u[k][1], u[k][2])}}

\* C9: a placement appends one bracket whose level is 0 if its span meets no
\* earlier bracket and otherwise one more than the highest level among the
\* earlier brackets it meets; the earlier brackets keep their levels.
C9_GreedyLevel ==
    [][used' # used =>
        /\ Len(used') = Len(used) + 1
        /\ SubSeq(used', 1, Len(used)) = used
        /\ LET b == used'[Len(used')]
               met == LevelsMet(used, b[1], b[2])
           IN b[3] = IF met = {} THEN 0
                     ELSE 1 + (CHOOSE v \in met : \A w \in met : w <= v)
    ]_vars

\* the third bracket meets two earlier brackets that share level 0, and gets
\* level 1
C9_Witness ==
    /\ lpc = "loop"
    /\ Len(used) = 3
    /\ used[1][3] = 0
    /\ used[2][3] = 0
    /\ used[3][3] = 1
    /\ LevelsMet(SubSeq(used, 1, 2), used[3][1], used[3][2]) = {0}
    /\ SpansIntersect(used[3][1], used[3][2], used[1][1], used[1][2])
    /\ SpansIntersect(used[3][1], used[3][2], used[2][1], used[2][2])

\* the upper bound of the axis on entry
EntryTop == ylim[1] + y_range

RECURSIVE SeqMax(_, _)
SeqMax(f, k) == IF k = 0 THEN 0 ELSE Max(f[k], SeqMax(f, k - 1))

\* the highest y-coordinate of a placed bracket, 0 if there is none
MaxBracketY == SeqMax([k \in 1..Len(plotted) |-> plotted[k].y], Len(plotted))

\* the highest label anchor of a placed bracket, y + 0.2 line_height +
\* text_offset, 0 if there is none
MaxLabelY ==
    SeqMax([k \in 1..Len(plotted) |->
               plotted[k].y + connector(y_range) + text_offset(y_range)],
           Len(plotted))

C11_LaterOverlappingBracketIsHigher ==
    \A i \in 1..Len(plotted) : \A j \in 1..Len(plotted) :
        (i < j /\ SpansIntersect(plotted[i].x1, plotted[i].x2,
                                 plotted[j].x1, plotted[j].x2))
            => plotted[j].y > plotted[i].y

\* the spans a placed bracket can have: x1 <= x2 among the tick positions
AllSpans ==
    {sp \in (0..(Len(xticklabels) - 1)) \X (0..(Len(xticklabels) - 1)) :
        sp[1] <= sp[2]}

\* the ordered span lists of up to MaxRows significant comparisons
SpanSeqs == UNION {[1..k -> AllSpans] : k \in 0..MaxRows}

\* the spans of the brackets of u, in order of placement
Spans(u) == [k \in 1..Len(u) |-> <<u[k][1], u[k][2]>>]

\* the maximum level of the brackets of u, 0 if there is none
TopLevel(u) == SeqMax([k \in 1..Len(u) |-> u[k][3]], Len(u))

\* the reorderings of k rows
Orderings(k) == {f \in [1..k -> 1..k] : \A i \in 1..k : \E j \in 1..k : f[j] = i}
Reordered(s, f) == [k \in 1..Len(s) |-> s[f[k]]]

\* the largest number of spans of s that pairwise intersect
CliqueNumber(s) ==
    LET cliques == {S \in SUBSET (1..Len(s)) :
                       \A i \in S : \A j \in S :
                           SpansIntersect(s[i][1], s[i][2], s[j][1], s[j][2])}
    IN CHOOSE c \in 0..Len(s) :
           /\ \E S \in cliques : Cardinality(S) = c
           /\ \A S \in cliques : Cardinality(S) <= c

\* the greedy rule replayed over an ordered span list, from the statement: a
\* bracket gets level 0 if it meets no earlier bracket, otherwise one more
\* than the highest level it meets
RECURSIVE GreedyLevels(_)
GreedyLevels(s) ==
    IF s = <<>> THEN <<>>
    ELSE LET u == GreedyLevels(SubSeq(s, 1, Len(s) - 1))
             b == s[Len(s)]
             met == LevelsMet(u, b[1], b[2])
         IN Append(u, <<b[1], b[2],
                        IF met = {} THEN 0
                        ELSE 1 + (CHOOSE v \in met : \A w \in met : w <= v)>>)

\* two orderings of one set of comparisons reach different maximum levels
OrderMatters ==
    \E s \in SpanSeqs : \E f \in Orderings(Len(s)) :
        TopLevel(Layout(s)) # TopLevel(Layout(Reordered(s, f)))

\* an ordering uses more levels than the largest family of pairwise
\* overlapping brackets needs
NotMinimal ==
    \E s \in SpanSeqs : TopLevel(Layout(s)) + 1 > CliqueNumber(s)

\* C12: the levels depend on the order of the comparisons and are not minimal
\* in general (some comparisons reach different maximum levels in two
\* orderings, and some ordering reaches a maximum level + 1 above the largest
\* number of pairwise overlapping brackets), while for one fixed ordering the
\* level assignment is always the same: it is a function of the ordered spans
\* alone, whatever the bar heights, p-values and alpha of the run.
C12_OrderDependentButDeterministic ==
    /\ used = GreedyLevels(Spans(used))
    /\ OrderMatters
    /\ NotMinimal

\* three brackets placed on levels 0, 1, 2 although no three of them pairwise
\* overlap, where another order of the same comparisons stays below level 2
C12_Witness ==
    /\ lpc = "loop"
    /\ Len(used) = 3
    /\ TopLevel(used) = 2
    /\ TopLevel(used) + 1 > CliqueNumber(Spans(used))
    /\ \E f \in Orderings(Len(used)) :
           TopLevel(Layout(Reordered(Spans(used), f))) < TopLevel(used)

====
